---- MODULE Spec2Model ----
(***************************************************************************)
(* SingleRunExternalDAGsSensor                                             *)
(* (catalog/dags/common/sensors/single_run_external_dags_sensor.py).       *)
(*                                                                         *)
(* The sensor's poke() reads three host tables (DagModel, DagRun,          *)
(* TaskInstance) and the DAG files, and keeps one private flag,            *)
(* _has_checked_params.  The model holds those tables, one sensor instance *)
(* per DAG run, and the host steps that write the tables: a run starts,    *)
(* its upstream task succeeds, the sensor task is poked until poke()       *)
(* returns True or raises, the sensor task is marked SUCCESS or FAILED,    *)
(* the run ends.                                                           *)
(***************************************************************************)
EXTENDS Naturals, Sequences, FiniteSets, TLC

\* Number of poke() calls the host makes on one sensor instance.
MaxPokes == 2
\* Number of DAG runs the host creates in all.
MaxRuns == 3

DagIds == {"A", "B", "C"}
\* run_id is unique per DAG only: scheduled runs of two DAGs on the same
\* schedule carry the same run_id.
RunIds == {"r1", "r2"}
\* The sensor task and a task upstream of it.
SensorTaskId == "wait"
TaskIds == {"pre", SensorTaskId}

Runs == DagIds \X RunIds
TIKeys == DagIds \X RunIds \X TaskIds

RunStates == {"none", "running", "success", "failed"}
TIStates == {"none", "running", "success", "failed"}
\* What _check_for_existence finds for a DAG id:
\*   norecord  no DagModel row
\*   nosource  a row whose fileloc does not exist
\*   nodag     the file exists, DagBag(fileloc).get_dag(dag_id) is None
\*   notask    the reloaded DAG has no task with the sensor's task_id
DefStates == {"ok", "norecord", "nosource", "nodag", "notask"}
Failures == {"not_found", "deleted", "attribute_error", "no_task"}
Outcomes == {"none", "true", "false"} \cup Failures

\* The ways the DAGs watch each other: every DAG watches the two others, or
\* A and B watch each other and C watches both without being watched.
Topologies ==
  { [A |-> <<"B", "C">>, B |-> <<"A", "C">>, C |-> <<"A", "B">>],
    [A |-> <<"B">>, B |-> <<"A">>, C |-> <<"B", "A">>] }

VARIABLES
  dagDef,               \* DagModel row, file and reloaded DAG of each dag_id
  dagRuns,              \* DagRun.state by (dag_id, run_id); "none": no row
  taskInstances,        \* TaskInstance.state by (dag_id, run_id, task_id)
  external_dag_ids,     \* constructor argument, per DAG
  check_existence,      \* constructor argument
  allow_concurrent_runs,\* constructor argument
  has_checked_params,   \* self._has_checked_params, per sensor instance
  pokes,                \* number of poke() calls made on the instance
  outcome,              \* what the last poke() call returned or raised
  nExist,               \* number of _check_for_existence calls made
  nCount                \* number of get_count calls made

store == <<dagDef, dagRuns, taskInstances>>
config == <<external_dag_ids, check_existence, allow_concurrent_runs>>
sensor == <<has_checked_params, pokes, outcome, nExist, nCount>>
vars == <<store, config, sensor>>

Range(s) == {s[i] : i \in DOMAIN s}

----------------------------------------------------------------------------
\* A variant of _check_for_existence that goes on to the next id when a
\* DAG has no DagModel row instead of raising.
RECURSIVE _check_for_existence_skipping_missing(_, _)
_check_for_existence_skipping_missing(ids, task_id) ==
  IF ids = <<>> THEN "ok"
  ELSE LET dag_id == Head(ids) IN
       IF dagDef[dag_id] = "norecord"
       THEN _check_for_existence_skipping_missing(Tail(ids), task_id)
       ELSE IF dagDef[dag_id] = "nosource" THEN "deleted"
       ELSE IF dagDef[dag_id] = "nodag" THEN "attribute_error"
       ELSE IF dagDef[dag_id] = "notask" THEN "no_task"
       ELSE _check_for_existence_skipping_missing(Tail(ids), task_id)

\* _check_for_existence: the first defect met in the order of
\* external_dag_ids ends the call; "ok" when the loop completes.
\* refreshed_dag_info is None when the file no longer defines the DAG, and
\* refreshed_dag_info.has_task then raises AttributeError.
RECURSIVE _check_for_existence(_, _)
_check_for_existence(ids, task_id) ==
  IF ids = <<>> THEN "ok"
  ELSE LET dag_id == Head(ids) IN
       IF dagDef[dag_id] = "norecord" THEN "not_found"
       ELSE IF dagDef[dag_id] = "nosource" THEN "deleted"
       ELSE IF dagDef[dag_id] = "nodag" THEN "attribute_error"
       ELSE IF dagDef[dag_id] = "notask" THEN "no_task"
       ELSE _check_for_existence(Tail(ids), task_id)

\* A variant of get_count whose TaskInstance filter asks for state RUNNING.
get_count_of_running_tasks(ids, task_id) ==
  LET dag_runs == { run \in Runs : /\ dagRuns[run] # "none"
                                   /\ run[1] \in Range(ids)
                                   /\ dagRuns[run] = "running" }
      task_instances == { ti \in TIKeys : /\ taskInstances[ti] # "none"
                                          /\ ti[3] = task_id
                                          /\ taskInstances[ti] = "running" }
  IN Cardinality({ p \in dag_runs \X task_instances : p[2][2] = p[1][2] })

\* A variant of get_count without the DagRun.state filter.
get_count_of_any_run_state(ids, task_id) ==
  LET dag_runs == { run \in Runs : /\ dagRuns[run] # "none"
                                   /\ run[1] \in Range(ids) }
      task_instances == { ti \in TIKeys : /\ taskInstances[ti] # "none"
                                          /\ ti[3] = task_id
                                          /\ taskInstances[ti] = "success" }
  IN Cardinality({ p \in dag_runs \X task_instances : p[2][2] = p[1][2] })

\* get_count: the rows of DagRun JOIN TaskInstance ON TaskInstance.run_id =
\* DagRun.run_id that pass the DagRun filter (dag_id among the watched ids,
\* state RUNNING) and the TaskInstance filter (task_id, state SUCCESS).  The
\* join condition is on run_id alone.
get_count(ids, task_id) ==
  LET dag_runs == { run \in Runs : /\ dagRuns[run] # "none"
                                   /\ run[1] \in Range(ids)
                                   /\ dagRuns[run] = "running" }
      task_instances == { ti \in TIKeys : /\ taskInstances[ti] # "none"
                                          /\ ti[3] = task_id
                                          /\ taskInstances[ti] = "success" }
  IN Cardinality({ p \in dag_runs \X task_instances : p[2][2] = p[1][2] })

\* Lines 66-69 of poke: count, and return count_running == 0.
steady_state(g) ==
  IF get_count(external_dag_ids[g[1]], SensorTaskId) = 0 THEN "true" ELSE "false"

\* A variant of poke that sets _has_checked_params before the early return.
poke_marking_early_return(g) ==
  IF ~has_checked_params[g]
  THEN IF allow_concurrent_runs
       THEN [ret |-> "true", flag |-> TRUE, exist |-> 0, count |-> 0]
       ELSE LET err == IF check_existence
                       THEN _check_for_existence(external_dag_ids[g[1]], SensorTaskId)
                       ELSE "ok"
            IN IF err # "ok"
               THEN [ret |-> err, flag |-> FALSE,
                     exist |-> 1, count |-> 0]
               ELSE [ret |-> steady_state(g), flag |-> TRUE,
                     exist |-> IF check_existence THEN 1 ELSE 0, count |-> 1]
  ELSE [ret |-> steady_state(g), flag |-> TRUE, exist |-> 0, count |-> 1]

\* A variant of poke that never sets _has_checked_params.
poke_never_marking(g) ==
  IF ~has_checked_params[g]
  THEN IF allow_concurrent_runs
       THEN [ret |-> "true", flag |-> FALSE, exist |-> 0, count |-> 0]
       ELSE LET err == IF check_existence
                       THEN _check_for_existence(external_dag_ids[g[1]], SensorTaskId)
                       ELSE "ok"
            IN IF err # "ok"
               THEN [ret |-> err, flag |-> FALSE,
                     exist |-> 1, count |-> 0]
               ELSE [ret |-> steady_state(g), flag |-> FALSE,
                     exist |-> IF check_existence THEN 1 ELSE 0, count |-> 1]
  ELSE [ret |-> steady_state(g), flag |-> TRUE, exist |-> 0, count |-> 1]

\* A variant of poke that tests check_existence before allow_concurrent_runs.
poke_checking_existence_first(g) ==
  IF ~has_checked_params[g]
  THEN LET err == IF check_existence
                  THEN _check_for_existence(external_dag_ids[g[1]], SensorTaskId)
                  ELSE "ok"
       IN IF err # "ok"
          THEN [ret |-> err, flag |-> FALSE,
                exist |-> 1, count |-> 0]
          ELSE IF allow_concurrent_runs
               THEN [ret |-> "true", flag |-> FALSE,
                     exist |-> IF check_existence THEN 1 ELSE 0, count |-> 0]
               ELSE [ret |-> steady_state(g), flag |-> TRUE,
                     exist |-> IF check_existence THEN 1 ELSE 0, count |-> 1]
  ELSE [ret |-> steady_state(g), flag |-> TRUE, exist |-> 0, count |-> 1]

\* poke, one call on sensor instance g:
\*   ret    what the call returns ("true", "false") or the failure it raises
\*   flag   _has_checked_params after the call
\*   exist  1 when the call ran _check_for_existence
\*   count  1 when the call ran get_count
poke(g) ==
  IF ~has_checked_params[g]
  THEN IF allow_concurrent_runs
       THEN [ret |-> "true", flag |-> has_checked_params[g],
             exist |-> 0, count |-> 0]
       ELSE LET err == IF check_existence
                       THEN _check_for_existence(external_dag_ids[g[1]], SensorTaskId)
                       ELSE "ok"
            IN IF err # "ok"
               THEN [ret |-> err, flag |-> has_checked_params[g],
                     exist |-> 1, count |-> 0]
               ELSE [ret |-> steady_state(g), flag |-> TRUE,
                     exist |-> IF check_existence THEN 1 ELSE 0, count |-> 1]
  ELSE [ret |-> steady_state(g), flag |-> has_checked_params[g],
        exist |-> 0, count |-> 1]

----------------------------------------------------------------------------
Init ==
  /\ dagDef \in [DagIds -> DefStates]
  /\ dagRuns = [g \in Runs |-> "none"]
  /\ taskInstances = [k \in TIKeys |-> "none"]
  /\ external_dag_ids \in Topologies
  /\ check_existence \in BOOLEAN
  /\ allow_concurrent_runs \in BOOLEAN
  /\ has_checked_params = [g \in Runs |-> FALSE]
  /\ pokes = [g \in Runs |-> 0]
  /\ outcome = [g \in Runs |-> "none"]
  /\ nExist = [g \in Runs |-> 0]
  /\ nCount = [g \in Runs |-> 0]

\* The host creates a run of a DAG that is defined, under a run_id the DAG
\* has not used, and starts its upstream task.
StartRun(d, r) ==
  /\ dagDef[d] = "ok"
  /\ dagRuns[<<d, r>>] = "none"
  /\ Cardinality({g \in Runs : dagRuns[g] # "none"}) < MaxRuns
  /\ dagRuns' = [dagRuns EXCEPT ![<<d, r>>] = "running"]
  /\ taskInstances' = [taskInstances EXCEPT ![<<d, r, "pre">>] = "running"]
  /\ UNCHANGED <<dagDef, config, sensor>>

\* The upstream task succeeds and the sensor task starts executing.
PreSucceed(d, r) ==
  /\ dagRuns[<<d, r>>] = "running"
  /\ taskInstances[<<d, r, "pre">>] = "running"
  /\ taskInstances' = [taskInstances EXCEPT ![<<d, r, "pre">>] = "success",
                                            ![<<d, r, SensorTaskId>>] = "running"]
  /\ UNCHANGED <<dagDef, dagRuns, config, sensor>>

\* A variant of Poke that itself marks the sensor task SUCCESS in the store
\* when poke() returns True.
Poke_writing_task_state(d, r) ==
  LET g == <<d, r>>
      res == poke(g)
  IN /\ dagRuns[g] = "running"
     /\ taskInstances[<<d, r, SensorTaskId>>] = "running"
     /\ outcome[g] \in {"none", "false"}
     /\ pokes[g] < MaxPokes
     /\ has_checked_params' = [has_checked_params EXCEPT ![g] = res.flag]
     /\ pokes' = [pokes EXCEPT ![g] = @ + 1]
     /\ outcome' = [outcome EXCEPT ![g] = res.ret]
     /\ nExist' = [nExist EXCEPT ![g] = @ + res.exist]
     /\ nCount' = [nCount EXCEPT ![g] = @ + res.count]
     /\ taskInstances' = IF res.ret = "true"
                         THEN [taskInstances EXCEPT ![<<d, r, SensorTaskId>>] = "success"]
                         ELSE taskInstances
     /\ UNCHANGED <<dagDef, dagRuns, config>>

\* The host calls poke() on the executing sensor task, and again after each
\* False, with one session per call: the call reads one state of the store.
Poke(d, r) ==
  LET g == <<d, r>>
      res == poke(g)
  IN /\ dagRuns[g] = "running"
     /\ taskInstances[<<d, r, SensorTaskId>>] = "running"
     /\ outcome[g] \in {"none", "false"}
     /\ pokes[g] < MaxPokes
     /\ has_checked_params' = [has_checked_params EXCEPT ![g] = res.flag]
     /\ pokes' = [pokes EXCEPT ![g] = @ + 1]
     /\ outcome' = [outcome EXCEPT ![g] = res.ret]
     /\ nExist' = [nExist EXCEPT ![g] = @ + res.exist]
     /\ nCount' = [nCount EXCEPT ![g] = @ + res.count]
     /\ UNCHANGED <<store, config>>

\* poke() returned True: the host marks the sensor task SUCCESS.
TaskSucceed(d, r) ==
  /\ taskInstances[<<d, r, SensorTaskId>>] = "running"
  /\ outcome[<<d, r>>] = "true"
  /\ taskInstances' = [taskInstances EXCEPT ![<<d, r, SensorTaskId>>] = "success"]
  /\ UNCHANGED <<dagDef, dagRuns, config, sensor>>

\* poke() raised: the host marks the sensor task and the run FAILED.
TaskFail(d, r) ==
  /\ taskInstances[<<d, r, SensorTaskId>>] = "running"
  /\ outcome[<<d, r>>] \in Failures
  /\ taskInstances' = [taskInstances EXCEPT ![<<d, r, SensorTaskId>>] = "failed"]
  /\ dagRuns' = [dagRuns EXCEPT ![<<d, r>>] = "failed"]
  /\ UNCHANGED <<dagDef, config, sensor>>

\* The work downstream of the sensor is done: the run ends.
FinishRun(d, r) ==
  /\ dagRuns[<<d, r>>] = "running"
  /\ taskInstances[<<d, r, SensorTaskId>>] = "success"
  /\ dagRuns' = [dagRuns EXCEPT ![<<d, r>>] = "success"]
  /\ UNCHANGED <<dagDef, taskInstances, config, sensor>>

Next ==
  \E d \in DagIds, r \in RunIds :
    \/ StartRun(d, r)
    \/ PreSucceed(d, r)
    \/ Poke(d, r)
    \/ TaskSucceed(d, r)
    \/ TaskFail(d, r)
    \/ FinishRun(d, r)

Spec == Init /\ [][Next]_vars

TypeOK ==
  /\ dagDef \in [DagIds -> DefStates]
  /\ dagRuns \in [Runs -> RunStates]
  /\ taskInstances \in [TIKeys -> TIStates]
  /\ external_dag_ids \in Topologies
  /\ check_existence \in BOOLEAN
  /\ allow_concurrent_runs \in BOOLEAN
  /\ has_checked_params \in [Runs -> BOOLEAN]
  /\ pokes \in [Runs -> 0..MaxPokes]
  /\ outcome \in [Runs -> Outcomes]
  /\ nExist \in [Runs -> 0..MaxPokes]
  /\ nCount \in [Runs -> 0..MaxPokes]

----------------------------------------------------------------------------
\* Vocabulary of the properties.

\* The DAG ids sensor instance g watches.
Peers(g) == Range(external_dag_ids[g[1]])

\* The sensor task instance that belongs to the run itself is SUCCESS.
OwnCheckpointSuccess(run) ==
  taskInstances[<<run[1], run[2], SensorTaskId>>] = "success"

\* A run that is RUNNING and whose own sensor task is SUCCESS.
ActiveRun(run) == dagRuns[run] = "running" /\ OwnCheckpointSuccess(run)

ActivePeerRuns(g) == { run \in Runs : run[1] \in Peers(g) /\ ActiveRun(run) }

RunningPeerRuns(g) ==
  { run \in Runs : run[1] \in Peers(g) /\ dagRuns[run] = "running" }

\* This step is a poke() call on instance g.
PokeStep(g) == pokes'[g] = pokes[g] + 1

\* The poke() call of this step returned a boolean.
Returned(g) == outcome'[g] \in {"true", "false"}

\* Every DAG watches every other DAG.
MutuallyWatching == \A d \in DagIds : Range(external_dag_ids[d]) = DagIds \ {d}

\* The position in ids of the first DAG id with a defect, 0 when none has.
FirstDefect(ids) ==
  IF \E i \in DOMAIN ids : dagDef[ids[i]] # "ok"
  THEN CHOOSE i \in DOMAIN ids :
         /\ dagDef[ids[i]] # "ok"
         /\ \A j \in DOMAIN ids : j < i => dagDef[ids[j]] = "ok"
  ELSE 0

----------------------------------------------------------------------------
\* C1: with allow_concurrent_runs false, a poke() call that does not raise,
\* made while some run of a watched DAG is RUNNING with its own sensor task
\* SUCCESS, returns False; on the first call and on every later one.
C1_ActivePeerBlocks ==
  [][\A g \in Runs :
       (PokeStep(g) /\ ~allow_concurrent_runs /\ Returned(g)
          /\ ActivePeerRuns(g) # {})
       => outcome'[g] = "false"]_vars

\* C1 witness: a second poke() call has returned False while a watched run
\* is active.
C1_Witness ==
  \E g \in Runs :
    /\ ~allow_concurrent_runs
    /\ pokes[g] = 2
    /\ outcome[g] = "false"
    /\ ActivePeerRuns(g) # {}

\* C2: a poke() call that reaches the count returns True exactly when no run
\* of a watched DAG is RUNNING with a SUCCESS sensor task instance of that
\* same run: a RUNNING watched run whose own sensor task is absent or not
\* SUCCESS is not counted, whatever task instances other DAGs' runs have.
C2_CountedIffOwnCheckpoint ==
  [][\A g \in Runs :
       (PokeStep(g) /\ ~allow_concurrent_runs /\ Returned(g))
       => (outcome'[g] = "true" <=> ActivePeerRuns(g) = {})]_vars

\* C3: with allow_concurrent_runs true the first poke() call returns True
\* and runs neither _check_for_existence nor get_count, whatever the watched
\* runs' states and check_existence are.
C3_AllowConcurrentPasses ==
  \A g \in Runs :
    (allow_concurrent_runs /\ pokes[g] >= 1)
    => /\ outcome[g] = "true"
       /\ nExist[g] = 0
       /\ nCount[g] = 0

\* C3 witness: the first call returned True with check_existence set, a
\* watched DAG missing and a watched run active.
C3_Witness ==
  \E g \in Runs :
    /\ allow_concurrent_runs
    /\ check_existence
    /\ pokes[g] = 1
    /\ outcome[g] = "true"
    /\ ActivePeerRuns(g) # {}
    /\ \E d \in Peers(g) : dagDef[d] # "ok"

\* C4: when every DAG watches the others with allow_concurrent_runs false,
\* no two runs of different DAGs are at once RUNNING with their sensor task
\* SUCCESS.
C4_OnlyOneDagActive ==
  (MutuallyWatching /\ ~allow_concurrent_runs)
  => \A g, h \in Runs :
       (ActiveRun(g) /\ ActiveRun(h)) => g[1] = h[1]

\* C5 as stated: the first poke() call that returns, the early return under
\* allow_concurrent_runs included, sets _has_checked_params.
C5_FirstCallSetsFlag ==
  [][\A g \in Runs :
       (PokeStep(g) /\ pokes[g] = 0 /\ Returned(g))
       => has_checked_params'[g]]_vars

\* C5 amended: _has_checked_params never goes back to False; it becomes True
\* only in the first poke() call, and does so exactly when
\* allow_concurrent_runs is false and the call does not raise.
C5_FlagSetOnceByValidatingCall ==
  [][\A g \in Runs :
       /\ has_checked_params[g] => has_checked_params'[g]
       /\ (~has_checked_params[g] /\ has_checked_params'[g])
            => (PokeStep(g) /\ pokes[g] = 0)
       /\ (PokeStep(g) /\ pokes[g] = 0)
            => (has_checked_params'[g]
                  <=> (~allow_concurrent_runs /\ Returned(g)))]_vars

\* C5 witness: the flag is set and a second call has been made.
C5_Witness ==
  \E g \in Runs : has_checked_params[g] /\ pokes[g] = 2

\* C6 as stated: with check_existence true, after any number N >= 1 of
\* poke() calls _check_for_existence has run exactly once.
C6_ChecksOncePerInstance ==
  \A g \in Runs :
    (check_existence /\ pokes[g] >= 1) => nExist[g] = 1

\* C6 amended: with check_existence true and allow_concurrent_runs false,
\* after any number N >= 1 of poke() calls _check_for_existence has run
\* exactly once (so in call 1, and in none of calls 2..N).
C6_ChecksOnceUnlessAllowed ==
  \A g \in Runs :
    (check_existence /\ ~allow_concurrent_runs /\ pokes[g] >= 1)
    => nExist[g] = 1

\* C6 witness: two calls made with check_existence, one validation.
C6_Witness ==
  \E g \in Runs :
    /\ check_existence
    /\ ~allow_concurrent_runs
    /\ pokes[g] = 2
    /\ nExist[g] = 1

\* C7 as stated: with check_existence true and allow_concurrent_runs false,
\* a watched id without a DagModel row makes the first call raise not-found
\* before any count, and a watched DAG whose reloaded definition lacks the
\* task makes it raise the missing-task failure.
C7_DefectNamesFailure ==
  \A g \in Runs :
    (check_existence /\ ~allow_concurrent_runs /\ pokes[g] >= 1)
    => /\ (\E d \in Peers(g) : dagDef[d] = "norecord")
            => (outcome[g] = "not_found" /\ nCount[g] = 0)
       /\ (\E d \in Peers(g) : dagDef[d] = "notask")
            => outcome[g] = "no_task"

\* C7 amended: with check_existence true and allow_concurrent_runs false,
\* when some watched id has a defect the first call raises, before any
\* count, the failure of the first defective id in the order of
\* external_dag_ids: not-found when that id has no DagModel row, the
\* missing-task failure when its reloaded definition lacks the task.
C7_FirstDefectNamesFailure ==
  \A g \in Runs :
    LET ids == external_dag_ids[g[1]]
        i == FirstDefect(ids)
    IN (check_existence /\ ~allow_concurrent_runs /\ pokes[g] >= 1 /\ i # 0)
       => /\ pokes[g] = 1
          /\ outcome[g] \in Failures
          /\ nCount[g] = 0
          /\ dagDef[ids[i]] = "norecord" => outcome[g] = "not_found"
          /\ dagDef[ids[i]] = "notask" => outcome[g] = "no_task"

\* C7 witness: the first call raised not-found although a later watched id
\* has another defect.
C7_Witness ==
  \E g \in Runs :
    /\ check_existence
    /\ ~allow_concurrent_runs
    /\ outcome[g] = "not_found"
    /\ nCount[g] = 0
    /\ \E d \in Peers(g) : dagDef[d] \notin {"ok", "norecord"}

C9_PokeReadOnly ==
  [][\A g \in Runs :
       PokeStep(g)
       => /\ store' = store
          /\ config' = config
          /\ \A h \in Runs \ {g} :
               has_checked_params'[h] = has_checked_params[h]]_vars

\* C9 witness: a call has returned False and set the instance's flag.
C9_Witness ==
  \E g \in Runs :
    /\ outcome[g] = "false"
    /\ has_checked_params[g]
    /\ taskInstances[<<g[1], g[2], SensorTaskId>>] = "running"

\* C10: when every DAG watches the others and no RUNNING run has its own
\* sensor task SUCCESS, a poke() call that returns, made on a sensor of one
\* of several RUNNING runs, returns True.
C10_PollingSensorsPass ==
  [][\A g \in Runs :
       (PokeStep(g) /\ Returned(g) /\ MutuallyWatching
          /\ ~allow_concurrent_runs
          /\ RunningPeerRuns(g) # {}
          /\ \A run \in Runs :
               dagRuns[run] = "running" => ~OwnCheckpointSuccess(run))
       => outcome'[g] = "true"]_vars
====
